---- MODULE Spec2Model ----
(***************************************************************************)
(* State-machine model of the MonitorAgent backend:                        *)
(*   utils/url_fetcher.py            StreamURLFetcher (URL cache)           *)
(*   services/stream_service.py      StreamService (capture supervision)    *)
(*   services/transcription_service.py TranscriptionService (watcher and   *)
(*                                    transcription pipeline)              *)
(*   app.py                          start_monitoring (POST /api/start),    *)
(*                                   stop_monitoring (POST /api/stop),      *)
(*                                   broadcast_new_transcript (fan-out)     *)
(* Every coroutine is cut at its await points: one action per stretch of   *)
(* code that runs without suspension on the asyncio event loop.            *)
(***************************************************************************)
EXTENDS Integers, Sequences, FiniteSets, TLC

(***************************************************************************)
(* Program constants and bounds of the model                               *)
(***************************************************************************)
\* stream_service.py:27  self.max_retries = 3
max_retries == 3
\* url_fetcher.py:40  timedelta(minutes=15); the model clock counts minutes
CacheMinutes == 15
\* the model clock stops advancing here (one minute per Tick)
MaxTime == 17
\* segments the capture tool creates over the life of the process
MaxSeg == 2

\* TranscriptionService objects constructed over the life of the process
MaxInst == 2
\* direct calls of _process_audio_file (test_transcription.py)
MaxDirect == 1
\* sockets that connect to /ws
MaxWs == 3
\* calls of broadcast_new_transcript
MaxPub == 2
\* POST /api/start requests
MaxReq == 2
\* page loads over the life of the process, where direct callers of
\* get_fresh_url take part
MaxFetch == 4
\* largest limit passed to get_latest_transcripts
MaxLimit == 3
\* longest transcript, in words, the speech-to-text engine returns
MaxWords == 17

\* manifest URLs a page load can yield
URLs == {"u1", "u2"}

(***************************************************************************)
(* Strings are sequences of one-character strings                          *)
(***************************************************************************)
Digits == <<"0", "1", "2", "3", "4", "5", "6", "7", "8", "9">>
IsDigit(c) == \E i \in 1..Len(Digits) : Digits[i] = c
DigitVal(c) == (CHOOSE i \in 1..Len(Digits) : Digits[i] = c) - 1
Letters == <<"a", "b", "c", "d", "e", "f", "g", "h", "i", "j", "k", "l", "m",
             "n", "o", "p", "q", "r", "s", "t", "u", "v", "w", "x", "y", "z">>

\* code point of a character, for the characters the model uses
Ord(c) ==
    IF c = "\t" THEN 9
    ELSE IF c = "\n" THEN 10
    ELSE IF c = " " THEN 32
    ELSE IF c = "-" THEN 45
    ELSE IF c = "." THEN 46
    ELSE IF IsDigit(c) THEN 48 + DigitVal(c)
    ELSE IF c = ":" THEN 58
    ELSE IF c = "T" THEN 84
    ELSE IF c = "_" THEN 95
    ELSE 96 + (CHOOSE i \in 1..Len(Letters) : Letters[i] = c)

\* str < str
RECURSIVE StrLess(_, _)
StrLess(a, b) ==
    IF b = << >> THEN FALSE
    ELSE IF a = << >> THEN TRUE
    ELSE IF Ord(Head(a)) # Ord(Head(b)) THEN Ord(Head(a)) < Ord(Head(b))
    ELSE StrLess(Tail(a), Tail(b))

StartsWith(s, pat) ==
    /\ Len(pat) <= Len(s)
    /\ SubSeq(s, 1, Len(pat)) = pat

\* str.replace(pat, ""): every non-overlapping occurrence, left to right
RECURSIVE Remove(_, _)
Remove(s, pat) ==
    IF s = << >> THEN << >>
    ELSE IF StartsWith(s, pat) THEN Remove(SubSeq(s, Len(pat) + 1, Len(s)), pat)
    ELSE <<Head(s)>> \o Remove(Tail(s), pat)

RECURSIVE NumVal(_)
NumVal(s) ==
    IF s = << >> THEN 0
    ELSE 10 * NumVal(SubSeq(s, 1, Len(s) - 1)) + DigitVal(s[Len(s)])

AllDigits(s) == \A i \in 1..Len(s) : IsDigit(s[i])

\* n as `width` decimal digits, zero padded (n < 10^width)
RECURSIVE Pad(_, _)
Pad(n, width) ==
    IF width = 0 THEN << >>
    ELSE Pad(n \div 10, width - 1) \o <<Digits[(n % 10) + 1]>>

(***************************************************************************)
(* str.split() and " ".join()                                              *)
(***************************************************************************)
IsSpace(c) == c \in {" ", "\t", "\n"}

\* str.split(): the maximal runs of non-whitespace characters
RECURSIVE SplitFrom(_, _, _)
SplitFrom(s, i, word) ==
    IF i > Len(s) THEN (IF word = << >> THEN << >> ELSE <<word>>)
    ELSE IF IsSpace(s[i])
         THEN (IF word = << >> THEN << >> ELSE <<word>>) \o SplitFrom(s, i + 1, << >>)
         ELSE SplitFrom(s, i + 1, Append(word, s[i]))

Split(s) == SplitFrom(s, 1, << >>)

\* " ".join(words)
RECURSIVE Join(_)
Join(words) ==
    IF words = << >> THEN << >>
    ELSE IF Len(words) = 1 THEN words[1]
    ELSE words[1] \o <<" ">> \o Join(Tail(words))

Take(q, n) == SubSeq(q, 1, IF Len(q) < n THEN Len(q) ELSE n)

\* transcription_service.py:170  words[:15], len(words) > 15
SummaryWords == 15
Ellipsis == <<".", ".", ".">>

\* A faulty FallbackSummary: the truncation marker is left out
FallbackNoMarker(transcript) ==
    LET words == Split(transcript)
    IN  IF Len(words) > SummaryWords THEN Join(Take(words, SummaryWords))
        ELSE transcript

\* transcription_service.py:169-170  the except branch of _generate_summary
FallbackSummary(transcript) ==
    LET words == Split(transcript)
    IN  IF Len(words) > SummaryWords
        THEN Join(Take(words, SummaryWords)) \o Ellipsis
        ELSE transcript

(***************************************************************************)
(* Segment file names                                                      *)
(***************************************************************************)
AudioPrefix == <<"a", "u", "d", "i", "o", "_">>
WavSuffix == <<".", "w", "a", "v">>

\* Files audio_*.wav that the capture tool did not write (the glob of
\* test_transcription.py:23 and transcription_service.py:61 takes them all):
\* audio_x.wav, a date of seven digits, a time of five digits, and the 30th
\* of February
OtherNames ==
    << AudioPrefix \o <<"x">> \o WavSuffix,
       AudioPrefix \o <<"2", "0", "2", "5", "1", "1", "1", "_",
                        "1", "2", "0", "0", "0", "0">> \o WavSuffix,
       AudioPrefix \o <<"2", "0", "2", "5", "0", "1", "0", "1", "_",
                        "1", "2", "0", "0", "0">> \o WavSuffix,
       AudioPrefix \o <<"2", "0", "2", "5", "0", "2", "3", "0", "_",
                        "1", "2", "0", "0", "0", "0">> \o WavSuffix >>

\* stream_service.py:86  audio_%Y%m%d_%H%M%S.wav : the i-th segment of the
\* model is opened at 2025-01-01 12:00:00 plus (i - 1) minutes. The file
\* numbered -n is the n-th of OtherNames.
SegName(i) ==
    IF i < 0 THEN OtherNames[0 - i]
    ELSE AudioPrefix
             \o <<"2", "0", "2", "5", "0", "1", "0", "1", "_", "1", "2">>
             \o Pad(i - 1, 2) \o <<"0", "0">> \o WavSuffix

(***************************************************************************)
(* datetime.strptime(s, "%Y%m%d_%H%M%S") and datetime.isoformat()          *)
(***************************************************************************)
\* The alternatives of the directive regexes of _strptime, in their order:
\*   m  1[0-2]|0[1-9]|[1-9]           d  3[0-1]|[1-2]\d|0[1-9]|[1-9]| [1-9]
\*   H  2[0-3]|[0-1]\d|\d   M  [0-5]\d|\d   S  6[0-1]|[0-5]\d|\d
\* Alternative 1 is the two-digit form, 2 the one-digit form, 3 (d only) the
\* space-padded form.
AltWidth(a) == IF a = 2 THEN 1 ELSE 2

FieldText(s, pos, a) == SubSeq(s, pos, pos + AltWidth(a) - 1)

FieldOk(s, pos, a, lo, hi) ==
    LET w == AltWidth(a)
        t == FieldText(s, pos, a)
    IN  /\ pos + w - 1 <= Len(s)
        /\ IF a = 3
           THEN t[1] = " " /\ IsDigit(t[2]) /\ DigitVal(t[2]) >= 1
           ELSE /\ AllDigits(t)
                /\ NumVal(t) >= lo
                /\ NumVal(t) <= hi

FieldVal(s, pos, a) ==
    IF a = 3 THEN DigitVal(s[pos + 1]) ELSE NumVal(FieldText(s, pos, a))

AltTuples == {<<am, ad, aH, aM, aS>> : am \in 1..2, ad \in 1..3, aH \in 1..2,
                                        aM \in 1..2, aS \in 1..2}

\* start positions of m, d, "_", H, M, S and the end of the match
PosM == 4 + 1
PosD(t) == PosM + AltWidth(t[1])
PosU(t) == PosD(t) + AltWidth(t[2])
PosH(t) == PosU(t) + 1
PosMi(t) == PosH(t) + AltWidth(t[3])
PosS(t) == PosMi(t) + AltWidth(t[4])
PosEnd(t) == PosS(t) + AltWidth(t[5])

RegexMatches(s, t) ==
    /\ Len(s) >= 4
    /\ AllDigits(SubSeq(s, 1, 4))
    /\ FieldOk(s, PosM, t[1], 1, 12)
    /\ FieldOk(s, PosD(t), t[2], 1, 31)
    /\ PosU(t) <= Len(s)
    /\ s[PosU(t)] = "_"
    /\ FieldOk(s, PosH(t), t[3], 0, 23)
    /\ FieldOk(s, PosMi(t), t[4], 0, 59)
    /\ FieldOk(s, PosS(t), t[5], 0, 61)

RECURSIVE TupleLeq(_, _)
TupleLeq(t, u) ==
    IF t = << >> THEN TRUE
    ELSE IF Head(t) # Head(u) THEN Head(t) < Head(u)
    ELSE TupleLeq(Tail(t), Tail(u))

IsLeap(y) == (y % 4 = 0 /\ y % 100 # 0) \/ y % 400 = 0

DaysInMonth(y, m) ==
    IF m = 2 THEN (IF IsLeap(y) THEN 29 ELSE 28)
    ELSE IF m \in {4, 6, 9, 11} THEN 30 ELSE 31

NotADate == [ok |-> FALSE]

\* The match the regex engine finds is the first in the order of the
\* alternatives; text left after it, or a field datetime() rejects, is a
\* ValueError (ok = FALSE).
StrpTime(s) ==
    LET M == {t \in AltTuples : RegexMatches(s, t)}
    IN  IF M = {} THEN NotADate
        ELSE LET t == CHOOSE x \in M : \A y \in M : TupleLeq(x, y)
                 Y == NumVal(SubSeq(s, 1, 4))
                 mo == FieldVal(s, PosM, t[1])
                 d == FieldVal(s, PosD(t), t[2])
                 S == FieldVal(s, PosS(t), t[5])
             IN  IF \/ PosEnd(t) # Len(s) + 1
                    \/ Y < 1
                    \/ d > DaysInMonth(Y, mo)
                    \/ S > 59
                 THEN NotADate
                 ELSE [ok |-> TRUE, Y |-> Y, m |-> mo, d |-> d,
                       H |-> FieldVal(s, PosH(t), t[3]),
                       M |-> FieldVal(s, PosMi(t), t[4]), S |-> S]

\* transcription_service.py:109-117  _extract_timestamp: the parsed time, or
\* datetime.now() (ok = FALSE, at the clock value `clock`)
ExtractTimestamp(filename, clock) ==
    LET p == StrpTime(Remove(Remove(filename, AudioPrefix), WavSuffix))
    IN  IF p.ok THEN p ELSE [ok |-> FALSE, at |-> clock]

\* datetime.isoformat(): a time read from the clock (it carries microseconds)
\* is written "now" and the clock value
IsoFormat(ts) ==
    IF ts.ok
    THEN Pad(ts.Y, 4) \o <<"-">> \o Pad(ts.m, 2) \o <<"-">> \o Pad(ts.d, 2)
         \o <<"T">> \o Pad(ts.H, 2) \o <<":">> \o Pad(ts.M, 2) \o <<":">>
         \o Pad(ts.S, 2)
    ELSE <<"now">> \o Pad(ts.at, 2)

VARIABLES
    \* ---- StreamURLFetcher (url_fetcher.py:18-21)
    current_url,     \* "None" or a URL
    url_expiry,      \* << >> (None) or <<t>>
    \* ---- StreamService (stream_service.py:18-27)
    is_running,
    process,         \* self.process: "None" or "Obj" (the last Process created)
    stream_url,
    retry_count,
    \* ---- the coroutines of the StreamService instance
    sup_pc,          \* start_stream / _fetch_and_process_stream
    stop_pc,         \* stop_stream: "idle"; inside wait_for (line 152)
                     \* "term_start" (its inner wait() not yet begun),
                     \* "term_wait" (begun while the subprocess ran) or
                     \* "term_got" (the inner wait() has returned);
                     \* "kill_wait" (line 156)
    \* ---- environment
    now,             \* wall clock, minutes
    proc_state,      \* the capture subprocess last created, as asyncio has
                     \* it: "none", "running", "reported" (its exit status is
                     \* set, its pipes are not yet closed) or "exited" (the
                     \* transport is closed)
    nseg,            \* segment files audio_*.wav in output/audio are 1..nseg
    active,          \* TRUE while the subprocess is writing segment nseg
    \* ---- observations (history, read by no action)
    fetch_count,     \* page loads started by _fetch_url_from_page
    last_call,       \* what the last get_fresh_url call saw and did
    attempts,        \* iterations of the supervision loop begun
    stop_obs,        \* what the stop_stream calls did; idle_call says
                     \* whether the call now suspended was made on a session
                     \* that was not running
    \* ---- TranscriptionService (transcription_service.py:26-30)
    processed_files, \* segments (by number) in self.processed_files
    is_monitoring,
    latest_transcripts,
    \* ---- the coroutines of the TranscriptionService instance
    mon_pc,          \* start_monitoring: "new", "check", "sleep", "done"
    audio_files,     \* the sorted list _check_new_files iterates
    idx,             \* position of its for loop in audio_files
    proc_pc,         \* _process_audio_file: "idle", "stt", "sum"
    job,             \* the segment _process_audio_file is working on
    caller,          \* who awaits _process_audio_file: "loop" or "direct"
    \* ---- observations of the watcher
    instances,       \* TranscriptionService objects constructed so far
    dispatched,      \* per segment, the calls of _process_audio_file
    direct_calls,    \* direct calls of _process_audio_file made
    last_out,        \* how the last summarization call ended
    watch_obs,       \* what the polls of this TranscriptionService did
    last_get,        \* the last get_latest_transcripts call and its result
    \* ---- app.py:28 and broadcast_new_transcript
    websocket_connections,
    pub_pc,          \* broadcast_new_transcript: "idle", "send"
    pub_i,           \* position of its for loop in websocket_connections
    pub_rec,         \* transcript_data
    disconnected,
    \* ---- sockets (environment) and observations
    ws_seen,         \* sockets that have connected
    ws_broken,       \* sockets whose peer has gone: send_json raises
    received,        \* per socket, the records delivered to it
    published,       \* records broadcast_new_transcript was called with
    pub_obs,         \* what the last broadcast call did
    \* ---- app.py:26-27 and the /api/start and /api/stop handlers
    app_stream,      \* the global stream_service: "None", "svc" (the
                     \* StreamService modelled here) or "fresh" (one that
                     \* start_monitoring constructed and nothing started)
    app_requests,    \* /api/start requests handled
    app_last,        \* the answer to the last one: "none", "rejected",
                     \* "error" or "started"
    app_transcription, \* the global transcription_service: "None" or "svc"
                     \* (the TranscriptionService modelled here)
    app_stop,        \* the /api/stop handler: "none", "pending" (inside
                     \* its await of stop_stream), or the answer to the
                     \* last request: "refused", "stopped", "error"
    \* ---- a direct caller of StreamURLFetcher.get_fresh_url
    get_pc,          \* its call: "idle" or "fetch" (in the page load)
    get_obs,         \* what its last call was given and what it returned
    \* ---- the directory output/audio beside the segments
    other_files      \* the files audio_*.wav in it that the capture tool did
                     \* not write: n stands for the n-th of OtherNames

captureVars == <<current_url, url_expiry, is_running, process, stream_url,
                 retry_count, sup_pc, stop_pc, now, proc_state, nseg, active,
                 fetch_count, last_call, attempts, stop_obs>>

watchVars == <<processed_files, is_monitoring, latest_transcripts, mon_pc,
               audio_files, idx, proc_pc, job, caller, instances, dispatched,
               direct_calls, last_out, watch_obs, last_get>>

bcastVars == <<websocket_connections, pub_pc, pub_i, pub_rec, disconnected,
               ws_seen, ws_broken, received, published, pub_obs>>

appVars == <<app_stream, app_requests, app_last, app_transcription, app_stop>>

fetchVars == <<get_pc, get_obs>>

dirVars == <<other_files>>

vars ==
    <<captureVars, watchVars, bcastVars, appVars, fetchVars, dirVars>>

(***************************************************************************)
(* StreamURLFetcher.get_fresh_url                                          *)
(***************************************************************************)
\* A faulty CacheValid: the expiry is not looked at
CacheValidForever(force_refresh) ==
    /\ ~force_refresh
    /\ current_url # "None"
    /\ url_expiry # << >>

\* url_fetcher.py:29-30  the cached URL is returned when this holds
CacheValid(force_refresh) ==
    /\ ~force_refresh
    /\ current_url # "None"
    /\ url_expiry # << >>
    /\ now < url_expiry[1]

\* no stop_stream() call has found the supervision loop in its backoff sleep
NoSnap == [set |-> FALSE, fetch |-> 0, retry |-> 0, attempts |-> 0]

NoCall == [force |-> FALSE, valid |-> FALSE, fetched |-> FALSE,
           returned |-> "None", pending |-> FALSE]

InitCapture ==
    /\ current_url = "None"
    /\ url_expiry = << >>
    /\ is_running = FALSE
    /\ process = "None"
    /\ stream_url = "None"
    /\ retry_count = 0
    /\ sup_pc = "new"
    /\ stop_pc = "idle"
    /\ now = 0
    /\ proc_state = "none"
    /\ nseg \in 0..MaxSeg
    /\ active = FALSE
    /\ fetch_count = 0
    /\ last_call = NoCall
    /\ attempts = 0
    /\ stop_obs = [returned |-> FALSE, raised |-> FALSE,
                   idle_op |-> FALSE, idle_raise |-> FALSE,
                   idle_call |-> FALSE, sleep |-> NoSnap]

\* nothing polled, failed, dropped or dispatched yet; no stop, no retrieval
NoObs == [listed |-> {}, failed |-> {}, dropped |-> {}, order |-> << >>,
          at_stop |-> 0]

NoGet == [called |-> FALSE, limit |-> 0, seq |-> << >>, result |-> << >>]

InitWatch ==
    /\ processed_files = {}
    /\ is_monitoring = FALSE
    /\ latest_transcripts = << >>
    /\ mon_pc = "new"
    /\ audio_files = << >>
    /\ idx = 0
    /\ proc_pc = "idle"
    /\ job = [file |-> 0, ts |-> NotADate, transcript |-> << >>]
    /\ caller = "loop"
    /\ instances = 1
    /\ dispatched = [f \in 1..MaxSeg |-> 0]
    /\ direct_calls = 0
    /\ last_out = [raised |-> FALSE, text |-> << >>]
    /\ watch_obs = NoObs
    /\ last_get = NoGet

InitBroadcast ==
    /\ websocket_connections = << >>
    /\ pub_pc = "idle"
    /\ pub_i = 0
    /\ pub_rec = << >>
    /\ disconnected = << >>
    /\ ws_seen = {}
    /\ ws_broken = {}
    /\ received = [w \in 1..MaxWs |-> {}]
    /\ published = << >>
    /\ pub_obs = [start |-> {}, failed |-> {}, got |-> {}, done |-> FALSE,
                  aborted |-> FALSE]

\* app.py:26-27  the globals at import
InitApp ==
    /\ app_stream = "None"
    /\ app_requests = 0
    /\ app_last = "none"
    /\ app_transcription = "None"
    /\ app_stop = "none"

NoGetCall == [force |-> FALSE, loaded |-> "None", returned |-> "None",
              done |-> FALSE]

\* no direct call of get_fresh_url has been made
InitDir == other_files = {}

InitFetch ==
    /\ get_pc = "idle"
    /\ get_obs = NoGetCall

\* The state after the services are constructed. The output directory may
\* hold the segments of an earlier run (test_transcription.py:22-28).
Init ==
    InitCapture /\ InitWatch /\ InitBroadcast /\ InitApp /\ InitFetch /\ InitDir

(***************************************************************************)
(* StreamURLFetcher.get_fresh_url called directly (url_fetcher.py:130-132) *)
(***************************************************************************)
\* A faulty CacheAfterFetch: a page load that found nothing empties the cache
CacheAfterFetchForgets(url, cur, exp, t) ==
    IF url # "None" THEN [url |-> url, expiry |-> <<t + CacheMinutes>>]
    ELSE [url |-> "None", expiry |-> << >>]

\* url_fetcher.py:37-43  the cache after a page load that returned `url`,
\* at clock value t
CacheAfterFetch(url, cur, exp, t) ==
    IF url # "None" THEN [url |-> url, expiry |-> <<t + CacheMinutes>>]
    ELSE [url |-> cur, expiry |-> exp]

\* url_fetcher.py:23-35  the call up to its return of the cached URL or to
\* the await of the page load
DirectGet(force_refresh) ==
    /\ get_pc = "idle"
    /\ IF CacheValid(force_refresh)
       THEN /\ get_pc' = "idle"
            /\ get_obs' = [force |-> force_refresh, loaded |-> "None",
                           returned |-> current_url, done |-> TRUE]
            /\ fetch_count' = fetch_count
       ELSE /\ fetch_count < MaxFetch
            /\ get_pc' = "fetch"
            /\ get_obs' = [force |-> force_refresh, loaded |-> "None",
                           returned |-> "None", done |-> FALSE]
            /\ fetch_count' = fetch_count + 1
    /\ UNCHANGED <<current_url, url_expiry, is_running, process, stream_url,
                   retry_count, sup_pc, stop_pc, now, proc_state, nseg,
                   active, last_call, attempts, stop_obs>>
    /\ UNCHANGED <<watchVars, bcastVars, appVars, dirVars>>

\* url_fetcher.py:35-43  the page load of the direct call ended with a
\* manifest URL or with None
DirectFetchDone(url) ==
    /\ get_pc = "fetch"
    /\ LET c == CacheAfterFetch(url, current_url, url_expiry, now)
       IN  /\ current_url' = c.url
           /\ url_expiry' = c.expiry
    /\ get_pc' = "idle"
    /\ get_obs' = [get_obs EXCEPT !.loaded = url, !.returned = url,
                                  !.done = TRUE]
    /\ UNCHANGED <<is_running, process, stream_url, retry_count, sup_pc,
                   stop_pc, now, proc_state, nseg, active, fetch_count,
                   last_call, attempts, stop_obs>>
    /\ UNCHANGED <<watchVars, bcastVars, appVars, dirVars>>

(***************************************************************************)
(* The clock and the capture subprocess (environment)                      *)
(***************************************************************************)
Tick ==
    /\ now < MaxTime
    /\ now' = now + 1
    /\ UNCHANGED <<current_url, url_expiry, is_running, process, stream_url,
                   retry_count, sup_pc, stop_pc, proc_state, nseg, active,
                   fetch_count, last_call, attempts, stop_obs>>
    /\ UNCHANGED <<watchVars, bcastVars, appVars, fetchVars,
                   dirVars>>

\* The capture tool opens its first segment file, or rotates to the next one
\* (-f segment -strftime 1, stream_service.py:97-102). Files are never removed.
FfmpegOpenSegment ==
    /\ proc_state = "running"
    /\ nseg < MaxSeg
    /\ nseg' = nseg + 1
    /\ active' = TRUE
    /\ UNCHANGED <<current_url, url_expiry, is_running, process, stream_url,
                   retry_count, sup_pc, stop_pc, now, proc_state,
                   fetch_count, last_call, attempts, stop_obs>>
    /\ UNCHANGED <<watchVars, bcastVars, appVars, fetchVars,
                   dirVars>>

\* The subprocess exits (source ended, error, or a signal it received) and
\* asyncio sets its exit status: from now on Process.wait() returns without
\* suspending and terminate() and kill() send nothing. A wait() that is
\* already suspended stays so.
FfmpegExit ==
    /\ proc_state = "running"
    /\ proc_state' = "reported"
    /\ active' = FALSE
    /\ UNCHANGED <<current_url, url_expiry, is_running, process, stream_url,
                   retry_count, sup_pc, stop_pc, now, nseg,
                   fetch_count, last_call, attempts, stop_obs>>
    /\ UNCHANGED <<watchVars, bcastVars, appVars, fetchVars,
                   dirVars>>

\* The pipes of the subprocess that has exited are closed and asyncio closes
\* its transport, in a callback of its own: the suspended Process.wait()
\* calls (stream_service.py:119, 152, 156) become runnable, and terminate()
\* and kill() raise ProcessLookupError from now on.
ConnectionLost ==
    /\ proc_state = "reported"
    /\ proc_state' = "exited"
    /\ UNCHANGED <<current_url, url_expiry, is_running, process, stream_url,
                   retry_count, sup_pc, stop_pc, now, nseg, active,
                   fetch_count, last_call, attempts, stop_obs>>
    /\ UNCHANGED <<watchVars, bcastVars, appVars, fetchVars,
                   dirVars>>

(***************************************************************************)
(* StreamService.start_stream / _fetch_and_process_stream                  *)
(***************************************************************************)
\* A faulty LoopGuard: the running flag is not looked at
LoopGuardIgnoresStop(run) == retry_count < max_retries

\* A faulty LoopGuard: the retry test off by one
LoopGuardOffByOne(run) == run /\ retry_count <= max_retries

\* stream_service.py:44  while self.is_running and self.retry_count < self.max_retries
LoopGuard(run) == run /\ retry_count < max_retries

\* stream_service.py:121-123, 71-79 and 39-41  create_subprocess_exec raised
\* with the retry counter at rc and is_running at run: the counter is
\* incremented; below the limit the loop sleeps, at the limit the exception
\* is raised again and start_stream clears is_running
RaiseOutcome(rc, run) ==
    [retry |-> rc + 1,
     pc |-> IF rc + 1 < max_retries THEN "sleep" ELSE "done",
     run |-> IF rc + 1 < max_retries THEN run ELSE FALSE]

\* stream_service.py:57-60 and 81-113  the body from the launch on, up to its
\* next await. create_subprocess_exec starts the program before it first
\* suspends: when the program cannot be started (no executable, no
\* permission) it raises in this same step (raised); else the call suspends
\* until the pipes are connected.
Launch(raised, run) ==
    IF raised
    THEN LET o == RaiseOutcome(retry_count, run)
         IN  /\ retry_count' = o.retry
             /\ sup_pc' = o.pc
             /\ is_running' = o.run
    ELSE /\ retry_count' = retry_count
         /\ sup_pc' = "spawn"
         /\ is_running' = run

\* One evaluation of the while test and, when it passes, the body up to its
\* first await: get_fresh_url() either returns the cached URL at once (and the
\* body runs on to the launch) or suspends in the page load. `run` is the
\* value of self.is_running at the test.
LoopIter(run) ==
    IF LoopGuard(run)
    THEN /\ attempts' = attempts + 1
         /\ IF CacheValid(FALSE)
            THEN /\ stream_url' = current_url
                 /\ \E raised \in BOOLEAN : Launch(raised, run)
                 /\ fetch_count' = fetch_count
                 /\ last_call' = [force |-> FALSE, valid |-> TRUE,
                                  fetched |-> FALSE, returned |-> current_url,
                                  pending |-> FALSE]
            ELSE /\ stream_url' = stream_url
                 /\ sup_pc' = "fetch"
                 /\ retry_count' = retry_count
                 /\ is_running' = run
                 /\ fetch_count' = fetch_count + 1
                 /\ last_call' = [force |-> FALSE, valid |-> FALSE,
                                  fetched |-> TRUE, returned |-> "None",
                                  pending |-> TRUE]
    ELSE /\ sup_pc' = "done"
         /\ retry_count' = retry_count
         /\ is_running' = run
         /\ UNCHANGED <<attempts, stream_url, fetch_count, last_call>>

\* stream_service.py:29-37  the task created for start_stream() starts running
StartStream ==
    /\ sup_pc = "new"
    /\ LoopIter(TRUE)
    /\ UNCHANGED <<current_url, url_expiry, process, stop_pc,
                   now, proc_state, nseg, active, stop_obs>>
    /\ UNCHANGED <<watchVars, bcastVars, appVars, fetchVars,
                   dirVars>>

\* url_fetcher.py:35-43 and stream_service.py:49-60  the page load ends with
\* a manifest URL or with None; with a URL the body runs on to the launch
FetchDone(url) ==
    /\ sup_pc = "fetch"
    /\ IF url # "None"
       THEN /\ current_url' = url
            /\ url_expiry' = <<now + CacheMinutes>>
       ELSE UNCHANGED <<current_url, url_expiry>>
    /\ last_call' = [last_call EXCEPT !.returned = url, !.pending = FALSE]
    /\ stream_url' = url
    /\ IF url = "None"
       THEN /\ retry_count' = retry_count + 1
            /\ sup_pc' = "sleep"
            /\ is_running' = is_running
       ELSE \E raised \in BOOLEAN : Launch(raised, is_running)
    /\ UNCHANGED <<process, stop_pc, now, proc_state, nseg,
                   active, fetch_count, attempts, stop_obs>>
    /\ UNCHANGED <<watchVars, bcastVars, appVars, fetchVars,
                   dirVars>>

\* A faulty SpawnOk: a successful launch gives the retry budget back
SpawnOkResets ==
    /\ sup_pc = "spawn"
    /\ process' = "Obj"
    /\ \E quick \in BOOLEAN :
          IF quick
          THEN /\ proc_state' = "reported"
               /\ IF is_running
                  THEN /\ retry_count' = retry_count + 1
                       /\ sup_pc' = "sleep"
                  ELSE /\ retry_count' = retry_count
                       /\ sup_pc' = "done"
          ELSE /\ proc_state' = "running"
               /\ sup_pc' = "wait"
               /\ retry_count' = 0
    /\ UNCHANGED <<current_url, url_expiry, is_running, stream_url,
                   stop_pc, now, nseg, active, fetch_count,
                   last_call, attempts, stop_obs>>
    /\ UNCHANGED <<watchVars, bcastVars, appVars, fetchVars,
                   dirVars>>

\* stream_service.py:109-119 and 62-69  create_subprocess_exec returned a
\* Process, which is bound to self.process, and wait() is called on it. When
\* the subprocess has exited by then (quick) wait() returns without
\* suspending and the body goes on in this same step: an exit that no stop
\* asked for is counted and followed by the sleep, else the loop ends.
SpawnOk ==
    /\ sup_pc = "spawn"
    /\ process' = "Obj"
    /\ \E quick \in BOOLEAN :
          IF quick
          THEN /\ proc_state' = "reported"
               /\ IF is_running
                  THEN /\ retry_count' = retry_count + 1
                       /\ sup_pc' = "sleep"
                  ELSE /\ retry_count' = retry_count
                       /\ sup_pc' = "done"
          ELSE /\ proc_state' = "running"
               /\ sup_pc' = "wait"
               /\ retry_count' = retry_count
    /\ UNCHANGED <<current_url, url_expiry, is_running, stream_url,
                   stop_pc, now, nseg, active, fetch_count,
                   last_call, attempts, stop_obs>>
    /\ UNCHANGED <<watchVars, bcastVars, appVars, fetchVars,
                   dirVars>>

\* stream_service.py:109-113, 121-123, 71-79 and 39-41
\* create_subprocess_exec raised after it had suspended: the program was
\* started and the connection of its pipes failed
SpawnRaise ==
    /\ sup_pc = "spawn"
    /\ LET o == RaiseOutcome(retry_count, is_running)
       IN  /\ retry_count' = o.retry
           /\ sup_pc' = o.pc
           /\ is_running' = o.run
    /\ UNCHANGED <<current_url, url_expiry, process, stream_url, stop_pc,
                   now, proc_state, nseg, active, fetch_count, last_call,
                   attempts, stop_obs>>
    /\ UNCHANGED <<watchVars, bcastVars, appVars, fetchVars,
                   dirVars>>

\* stream_service.py:119 and 62-69  the suspended await self.process.wait()
\* returned: the transport of the subprocess is closed
WaitDone ==
    /\ sup_pc = "wait"
    /\ proc_state = "exited"
    /\ IF is_running
       THEN /\ retry_count' = retry_count + 1
            /\ sup_pc' = "sleep"
       ELSE /\ retry_count' = retry_count
            /\ sup_pc' = "done"
    /\ UNCHANGED <<current_url, url_expiry, is_running, process, stream_url,
                   stop_pc, now, proc_state, nseg, active, fetch_count,
                   last_call, attempts, stop_obs>>
    /\ UNCHANGED <<watchVars, bcastVars, appVars, fetchVars,
                   dirVars>>

\* stream_service.py:54, 66, 76  asyncio.sleep(5) returned; back to the test
SleepDone ==
    /\ sup_pc = "sleep"
    /\ LoopIter(is_running)
    /\ UNCHANGED <<current_url, url_expiry, process,
                   stop_pc, now, proc_state, nseg, active, stop_obs>>
    /\ UNCHANGED <<watchVars, bcastVars, appVars, fetchVars,
                   dirVars>>

(***************************************************************************)
(* StreamService.stop_stream                                               *)
(***************************************************************************)
\* stream_service.py:20  the session is not running when is_running is False
NotRunning == ~is_running

\* stream_service.py:144-152  up to the first await. Process.terminate() on a
\* process whose transport is closed raises ProcessLookupError, which
\* stop_stream logs and re-raises (161-163). Else wait_for makes a task of
\* self.process.wait() and suspends; on a process whose exit status is set
\* that wait() is bound to return at once.
\* stop_obs.sleep notes the counters when the call finds the supervision
\* loop in a backoff sleep (first such call).
StopStreamBegin ==
    /\ stop_pc = "idle"
    /\ is_running' = FALSE
    /\ LET snap == IF sup_pc = "sleep" /\ ~stop_obs.sleep.set
                   THEN [set |-> TRUE, fetch |-> fetch_count,
                         retry |-> retry_count, attempts |-> attempts]
                   ELSE stop_obs.sleep
       IN  IF process = "None"
           THEN /\ stop_pc' = "idle"
                /\ stop_obs' = [stop_obs EXCEPT
                                  !.returned = @ \/ sup_pc # "new",
                                  !.sleep = snap]
           ELSE IF proc_state = "exited"
           THEN /\ stop_pc' = "idle"
                /\ stop_obs' = [stop_obs EXCEPT !.raised = TRUE,
                                  !.idle_op = @ \/ NotRunning,
                                  !.idle_raise = @ \/ NotRunning,
                                  !.sleep = snap]
           ELSE /\ stop_pc' = IF proc_state = "reported" THEN "term_got"
                               ELSE "term_start"
                /\ stop_obs' = [stop_obs EXCEPT
                                  !.idle_op = @ \/ NotRunning,
                                  !.idle_call = NotRunning,
                                  !.sleep = snap]
    /\ UNCHANGED <<current_url, url_expiry, process, stream_url, retry_count,
                   sup_pc, now, proc_state, nseg, active, fetch_count,
                   last_call, attempts>>

\* stream_service.py:142-163  stop_stream called on the service directly
StopStream ==
    /\ StopStreamBegin
    /\ UNCHANGED <<watchVars, bcastVars, appVars, fetchVars,
                   dirVars>>

\* app.py:75-82  the /api/stop handler once stop_stream has returned:
\* stop_monitoring() on the bound TranscriptionService
\* (transcription_service.py:191-194), both globals set to None, the answer
\* "stopped"
ApiStopFinish ==
    /\ IF app_transcription = "svc" /\ is_monitoring
       THEN /\ is_monitoring' = FALSE
            /\ watch_obs' = [watch_obs EXCEPT !.at_stop =
                                 IF proc_pc # "idle" /\ caller = "loop"
                                 THEN job.file ELSE @]
       ELSE UNCHANGED <<is_monitoring, watch_obs>>
    /\ app_stream' = "None"
    /\ app_transcription' = "None"
    /\ app_stop' = "stopped"
    /\ UNCHANGED <<processed_files, latest_transcripts, mon_pc, audio_files,
                   idx, proc_pc, job, caller, instances, dispatched,
                   direct_calls, last_out, last_get>>
    /\ UNCHANGED <<app_requests, app_last>>

\* stream_service.py:152  the task that wait_for made of
\* self.process.wait() runs its first step: wait() returns at once when the
\* exit status is set, else it suspends until the transport is closed
StopWaitBegin ==
    /\ stop_pc = "term_start"
    /\ stop_pc' = IF proc_state = "running" THEN "term_wait" ELSE "term_got"
    /\ UNCHANGED <<current_url, url_expiry, is_running, process, stream_url,
                   retry_count, sup_pc, now, proc_state, nseg, active,
                   fetch_count, last_call, attempts, stop_obs>>
    /\ UNCHANGED <<watchVars, bcastVars, appVars, fetchVars,
                   dirVars>>

\* stream_service.py:158-159  stop_stream returns; when the call was the
\* /api/stop handler's, the handler goes on to its end (app.py:75-82)
StopReturns ==
    /\ process' = "None"
    /\ stop_pc' = "idle"
    /\ stop_obs' = [stop_obs EXCEPT !.returned = TRUE]
    /\ IF app_stop = "pending"
       THEN ApiStopFinish
       ELSE UNCHANGED <<watchVars, appVars>>

\* stream_service.py:161-163  stop_stream raises, self.process still bound;
\* the /api/stop handler answers with status 500 (app.py:84-89)
StopRaises ==
    /\ process' = process
    /\ stop_pc' = "idle"
    /\ stop_obs' = [stop_obs EXCEPT !.raised = TRUE,
                                    !.idle_raise = @ \/ stop_obs.idle_call]
    /\ app_stop' = IF app_stop = "pending" THEN "error" ELSE app_stop
    /\ UNCHANGED <<app_stream, app_requests, app_last, app_transcription>>
    /\ UNCHANGED watchVars

\* stream_service.py:153-158  wait_for timed out, the inner wait() not having
\* returned. kill() on a running subprocess is followed by the wait of line
\* 156; on one whose exit status is set kill() sends nothing and wait()
\* returns at once; on one whose transport was closed in the meantime kill()
\* raises ProcessLookupError, which is not a TimeoutError: lines 161-163.
StopKill ==
    /\ stop_pc \in {"term_start", "term_wait"}
    /\ IF proc_state = "running"
       THEN /\ stop_pc' = "kill_wait"
            /\ UNCHANGED <<process, stop_obs, watchVars, appVars>>
       ELSE IF proc_state = "reported"
       THEN StopReturns
       ELSE StopRaises
    /\ UNCHANGED <<current_url, url_expiry, is_running, stream_url,
                   retry_count, sup_pc, now, proc_state, nseg, active,
                   fetch_count, last_call, attempts>>
    /\ UNCHANGED <<bcastVars, fetchVars, dirVars>>

\* stream_service.py:152/156-159  the wait returned: the inner wait() of
\* wait_for had returned at once, or the transport of the subprocess is
\* closed
StopDone ==
    /\ \/ stop_pc = "term_got"
       \/ stop_pc \in {"term_wait", "kill_wait"} /\ proc_state = "exited"
    /\ StopReturns
    /\ UNCHANGED <<current_url, url_expiry, is_running, stream_url,
                   retry_count, sup_pc, now, proc_state, nseg, active,
                   fetch_count, last_call, attempts>>
    /\ UNCHANGED <<bcastVars, fetchVars, dirVars>>

(***************************************************************************)
(* TranscriptionService: the watcher loop and the pipeline                 *)
(***************************************************************************)
NoJob == [file |-> 0, ts |-> NotADate, transcript |-> << >>]

\* A faulty SortByName: the listing in descending order
RECURSIVE SortByNameDesc(_)
SortByNameDesc(S) ==
    IF S = {} THEN << >>
    ELSE LET m == CHOOSE x \in S :
                    \A y \in S \ {x} : StrLess(SegName(y), SegName(x))
         IN  <<m>> \o SortByNameDesc(S \ {m})

\* transcription_service.py:61  sorted(self.audio_dir.glob("audio_*.wav")):
\* paths of one directory order as their names do
RECURSIVE SortByName(_)
SortByName(S) ==
    IF S = {} THEN << >>
    ELSE LET m == CHOOSE x \in S :
                    \A y \in S \ {x} : StrLess(SegName(x), SegName(y))
         IN  <<m>> \o SortByName(S \ {m})

\* the files of output/audio that the pattern audio_*.wav matches: the
\* segments and the other files (numbered below 0, see SegName)
AudioFilesInDir == (1..nseg) \cup {0 - n : n \in other_files}

SortedFiles == SortByName(AudioFilesInDir)

\* A faulty IsNew: the membership test is lost
IsNewAlways(f, P) == TRUE

\* transcription_service.py:64  if audio_file not in self.processed_files
IsNew(f, P) == f \notin P

\* the first position from i on whose file passes the test of line 64, or 0
NextNew(files, i, P) ==
    LET J == {j \in i..Len(files) : IsNew(files[j], P)}
    IN  IF J = {} THEN 0 ELSE CHOOSE j \in J : \A k \in J : j <= k

\* transcription_service.py:69-79  _process_audio_file up to its first await
\* (the executor call of _transcribe_audio)
Dispatch(f) ==
    /\ job' = [file |-> f, ts |-> ExtractTimestamp(SegName(f), now),
               transcript |-> << >>]
    /\ proc_pc' = "stt"
    /\ dispatched' = IF f \in DOMAIN dispatched
                     THEN [dispatched EXCEPT ![f] = @ + 1]
                     ELSE dispatched

\* transcription_service.py:63-67 and 50-51  the for loop of _check_new_files
\* over `files` from position i with processed set P, up to its next await:
\* that of _process_audio_file, or the sleep after the loop
\* `obs` is what the step has observed so far.
ScanFrom(files, i, P, obs) ==
    LET j == NextNew(files, i, P)
    IN  /\ processed_files' = P
        /\ IF j # 0
           THEN /\ audio_files' = files
                /\ idx' = j
                /\ mon_pc' = "check"
                /\ Dispatch(files[j])
                /\ watch_obs' = [obs EXCEPT !.order = Append(@, files[j])]
           ELSE /\ audio_files' = << >>
                /\ idx' = 0
                /\ mon_pc' = "sleep"
                /\ job' = NoJob
                /\ proc_pc' = "idle"
                /\ dispatched' = dispatched
                /\ watch_obs' = obs

\* the files of the directory listing of line 61
ListedFiles == {SortedFiles[k] : k \in 1..Len(SortedFiles)}

\* transcription_service.py:26-30  a new TranscriptionService() takes the
\* place of one whose loop has ended (app.py:47, test_transcription.py:39)
NewTranscriptionService ==
    /\ mon_pc = "done"
    /\ proc_pc = "idle"
    /\ instances < MaxInst
    /\ instances' = instances + 1
    /\ processed_files' = {}
    /\ is_monitoring' = FALSE
    /\ latest_transcripts' = << >>
    /\ mon_pc' = "new"
    /\ watch_obs' = NoObs
    /\ last_get' = NoGet
    /\ UNCHANGED <<audio_files, idx, proc_pc, job, caller, dispatched,
                   direct_calls, last_out>>
    /\ UNCHANGED <<captureVars, bcastVars, appVars, fetchVars,
                   dirVars>>

\* transcription_service.py:43-51  the task created for start_monitoring()
\* starts running
StartMonitoring ==
    /\ mon_pc = "new"
    /\ proc_pc = "idle"
    /\ is_monitoring' = TRUE
    /\ caller' = "loop"
    /\ ScanFrom(SortedFiles, 1, processed_files,
                [watch_obs EXCEPT !.listed = ListedFiles])
    /\ UNCHANGED <<latest_transcripts, instances, direct_calls, last_out,
                   last_get>>
    /\ UNCHANGED <<captureVars, bcastVars, appVars, fetchVars,
                   dirVars>>

\* transcription_service.py:51 and 48  asyncio.sleep(5) returned
MonSleepDone ==
    /\ mon_pc = "sleep"
    /\ IF is_monitoring
       THEN ScanFrom(SortedFiles, 1, processed_files,
                     [watch_obs EXCEPT !.listed = ListedFiles])
       ELSE /\ mon_pc' = "done"
            /\ UNCHANGED <<processed_files, audio_files, idx, job, proc_pc,
                           dispatched, watch_obs>>
    /\ UNCHANGED <<is_monitoring, latest_transcripts, caller, instances,
                   direct_calls, last_out, last_get>>
    /\ UNCHANGED <<captureVars, bcastVars, appVars, fetchVars,
                   dirVars>>

\* A faulty StopMonitoring: the transcription in flight is abandoned
StopMonitoringCancels ==
    /\ is_monitoring
    /\ is_monitoring' = FALSE
    /\ watch_obs' = [watch_obs EXCEPT !.at_stop =
                         IF proc_pc # "idle" /\ caller = "loop"
                         THEN job.file ELSE @]
    /\ proc_pc' = "idle"
    /\ job' = NoJob
    /\ mon_pc' = IF mon_pc = "check" THEN "sleep" ELSE mon_pc
    /\ UNCHANGED <<processed_files, latest_transcripts, audio_files,
                   idx, caller, instances, dispatched,
                   direct_calls, last_out, last_get>>
    /\ UNCHANGED <<captureVars, bcastVars, appVars, fetchVars,
                   dirVars>>

\* transcription_service.py:191-194  only the flag is cleared; at_stop notes
\* the segment the loop's pipeline was working on at that moment
StopMonitoring ==
    /\ is_monitoring
    /\ is_monitoring' = FALSE
    /\ watch_obs' = [watch_obs EXCEPT !.at_stop =
                         IF proc_pc # "idle" /\ caller = "loop"
                         THEN job.file ELSE @]
    /\ UNCHANGED <<processed_files, latest_transcripts, mon_pc, audio_files,
                   idx, proc_pc, job, caller, instances, dispatched,
                   direct_calls, last_out, last_get>>
    /\ UNCHANGED <<captureVars, bcastVars, appVars, fetchVars,
                   dirVars>>

\* Another program puts a file audio_*.wav of its own into output/audio (the
\* globs of transcription_service.py:61 and test_transcription.py:23 take
\* whatever is there). Files are never removed.
OtherFileAppears(n) ==
    /\ n \in 1..Len(OtherNames)
    /\ n \notin other_files
    /\ other_files' = other_files \cup {n}
    /\ UNCHANGED <<captureVars, watchVars, bcastVars, appVars, fetchVars>>

\* test_transcription.py:39-43  _process_audio_file called directly on a
\* service whose loop was never started
ProcessDirect(f) ==
    /\ mon_pc = "new"
    /\ proc_pc = "idle"
    /\ f \in 1..nseg
    /\ direct_calls < MaxDirect
    /\ direct_calls' = direct_calls + 1
    /\ caller' = "direct"
    /\ Dispatch(f)
    /\ UNCHANGED <<processed_files, is_monitoring, latest_transcripts, mon_pc,
                   audio_files, idx, instances, last_out, watch_obs,
                   last_get>>
    /\ UNCHANGED <<captureVars, bcastVars, appVars, fetchVars,
                   dirVars>>

\* test_transcription.py:22-43  the same direct call on the n-th of the
\* files that the capture tool did not write
ProcessOther(n) ==
    /\ mon_pc = "new"
    /\ proc_pc = "idle"
    /\ n \in other_files
    /\ direct_calls < MaxDirect
    /\ direct_calls' = direct_calls + 1
    /\ caller' = "direct"
    /\ Dispatch(0 - n)
    /\ UNCHANGED <<processed_files, is_monitoring, latest_transcripts, mon_pc,
                   audio_files, idx, instances, last_out, watch_obs,
                   last_get>>
    /\ UNCHANGED <<captureVars, bcastVars, appVars, fetchVars,
                   dirVars>>

\* A faulty FinishJob: the watcher gives up the rest of the poll, and the
\* segment is not marked
FinishJobAbort(obs) ==
    /\ proc_pc' = "idle"
    /\ job' = NoJob
    /\ watch_obs' = obs
    /\ audio_files' = << >>
    /\ idx' = 0
    /\ mon_pc' = IF caller = "loop" THEN "sleep" ELSE mon_pc
    /\ UNCHANGED <<processed_files, dispatched>>

\* _process_audio_file has returned: back in _check_new_files the segment is
\* added to processed_files (line 67) and the for loop goes on; a direct
\* caller just gets control back
FinishJob(obs) ==
    IF caller = "loop"
    THEN ScanFrom(audio_files, idx + 1, processed_files \cup {job.file}, obs)
    ELSE /\ proc_pc' = "idle"
         /\ job' = NoJob
         /\ watch_obs' = obs
         /\ UNCHANGED <<processed_files, audio_files, idx, mon_pc, dispatched>>

\* transcription_service.py:89-96  the record of a processed segment
MakeRecord(j, summary) ==
    [timestamp |-> IsoFormat(j.ts),
     video_start |-> IsoFormat(j.ts),
     video_end |-> IsoFormat(j.ts),
     filename |-> SegName(j.file),
     transcript |-> j.transcript,
     summary |-> summary]

\* what an executor call can end with: an exception, or a stripped text
Outcomes(texts) ==
    {[raised |-> TRUE, text |-> << >>]}
        \cup {[raised |-> FALSE, text |-> t] : t \in texts}

\* transcription_service.py:126-136 and 79-86  the Whisper call ended: an
\* exception makes _transcribe_audio return None; None and "" drop the segment
SttDone(out) ==
    /\ proc_pc = "stt"
    /\ IF out.raised \/ out.text = << >>
       THEN /\ FinishJob([watch_obs EXCEPT
                           !.failed = IF out.raised THEN @ \cup {job.file}
                                      ELSE @,
                           !.dropped = IF caller = "loop"
                                       THEN @ \cup {job.file} ELSE @])
            /\ UNCHANGED latest_transcripts
       ELSE /\ job' = [job EXCEPT !.transcript = out.text]
            /\ proc_pc' = "sum"
            /\ UNCHANGED <<processed_files, latest_transcripts, mon_pc,
                           audio_files, idx, dispatched, watch_obs>>
    /\ UNCHANGED <<is_monitoring, caller, instances, direct_calls, last_out,
                   last_get>>
    /\ UNCHANGED <<captureVars, bcastVars, appVars, fetchVars,
                   dirVars>>

\* transcription_service.py:158-170  what _generate_summary returns
SummaryOf(out, transcript) ==
    IF out.raised THEN FallbackSummary(transcript) ELSE out.text

\* transcription_service.py:86-107  the Groq call ended: the record is
\* appended and _process_audio_file returns
SumDone(out) ==
    /\ proc_pc = "sum"
    /\ latest_transcripts' =
           Append(latest_transcripts,
                  MakeRecord(job, SummaryOf(out, job.transcript)))
    /\ FinishJob([watch_obs EXCEPT
                     !.failed = IF out.raised THEN @ \cup {job.file} ELSE @])
    /\ last_out' = out
    /\ UNCHANGED <<is_monitoring, caller, instances, direct_calls, last_get>>
    /\ UNCHANGED <<captureVars, bcastVars, appVars, fetchVars,
                   dirVars>>

(***************************************************************************)
(* TranscriptionService.get_latest_transcripts                             *)
(***************************************************************************)
\* Python's q[start:] for a list q: a negative start counts from the end,
\* and both are clamped to the list
SliceFrom(q, start) ==
    LET n == Len(q)
        lo == IF start < 0
              THEN (IF n + start < 0 THEN 0 ELSE n + start)
              ELSE (IF start > n THEN n ELSE start)
    IN  SubSeq(q, lo + 1, n)

\* transcription_service.py:202  self.latest_transcripts[-limit:]
GetLatestTranscripts(q, limit) == SliceFrom(q, 0 - limit)

\* transcription_service.py:200-202  one call; the list is not touched
GetLatest(limit) ==
    /\ last_get' = [called |-> TRUE, limit |-> limit,
                    seq |-> latest_transcripts,
                    result |-> GetLatestTranscripts(latest_transcripts, limit)]
    /\ UNCHANGED <<processed_files, is_monitoring, latest_transcripts, mon_pc,
                   audio_files, idx, proc_pc, job, caller, instances,
                   dispatched, direct_calls, last_out, watch_obs>>
    /\ UNCHANGED <<captureVars, bcastVars, appVars, fetchVars,
                   dirVars>>

(***************************************************************************)
(* app.py: POST /api/start                                                 *)
(***************************************************************************)
\* app.py:40  if stream_service and stream_service.is_running. A StreamService
\* that the handler constructed itself is never started (see AppStart).
AlreadyRunning == app_stream = "svc" /\ is_running

\* app.py:35-61  the handler has no await: one step. Past the test it binds
\* the global to a new StreamService (46); the TranscriptionService call of
\* line 47 passes broadcast_callback, which __init__
\* (transcription_service.py:26) does not take: TypeError, caught at 56 and
\* answered with status 500. Lines 50-54 (the two create_task calls and the
\* "started" answer) are never reached.
AppStart ==
    /\ app_requests < MaxReq
    /\ app_requests' = app_requests + 1
    /\ IF AlreadyRunning
       THEN /\ app_last' = "rejected"
            /\ app_stream' = app_stream
       ELSE /\ app_last' = "error"
            /\ app_stream' = "fresh"
    /\ UNCHANGED <<app_transcription, app_stop>>
    /\ UNCHANGED <<captureVars, watchVars, bcastVars, fetchVars, dirVars>>

(***************************************************************************)
(* app.py: POST /api/stop                                                  *)
(***************************************************************************)
\* app.py:62-89  up to the first await, or to the end when stop_stream does
\* not wait. With no running session bound the answer is status 400 and
\* nothing changes (68-72). Otherwise stop_stream is called (74): with no
\* subprocess it returns at once and the handler ends (75-82); on a
\* subprocess whose transport is closed it raises, which the handler
\* answers with status 500, the globals still bound (84-89); else the
\* handler waits.
ApiStop ==
    /\ app_stop # "pending"
    /\ stop_pc = "idle"
    /\ IF ~(app_stream = "svc" /\ is_running)
       THEN /\ app_stop' = "refused"
            /\ UNCHANGED <<app_stream, app_requests, app_last,
                           app_transcription>>
            /\ UNCHANGED <<captureVars, watchVars>>
       ELSE /\ StopStreamBegin
            /\ IF process = "None"
               THEN ApiStopFinish
               ELSE /\ app_stop' = IF proc_state = "exited" THEN "error"
                                   ELSE "pending"
                    /\ UNCHANGED <<app_stream, app_requests, app_last,
                                   app_transcription>>
                    /\ UNCHANGED watchVars
    /\ UNCHANGED <<bcastVars, fetchVars, dirVars>>

(***************************************************************************)
(* app.py: the /ws endpoint and broadcast_new_transcript                   *)
(***************************************************************************)
Range(q) == {q[i] : i \in 1..Len(q)}

\* list.remove(x): the first occurrence is taken out
RECURSIVE ListRemove(_, _)
ListRemove(q, x) ==
    IF q = << >> THEN << >>
    ELSE IF Head(q) = x THEN Tail(q)
    ELSE <<Head(q)>> \o ListRemove(Tail(q), x)

\* app.py:147-148  for ws in disconnected: websocket_connections.remove(ws);
\* remove raises ValueError (ok = FALSE) when ws is not in the list
RECURSIVE RemoveEach(_, _)
RemoveEach(conns, disc) ==
    IF disc = << >> THEN [ok |-> TRUE, conns |-> conns]
    ELSE IF Head(disc) \notin Range(conns) THEN [ok |-> FALSE, conns |-> conns]
    ELSE RemoveEach(ListRemove(conns, Head(disc)), Tail(disc))

\* app.py:115-116  a client connects: the n-th socket is socket n
WsConnect ==
    LET w == Cardinality(ws_seen) + 1
    IN  /\ w <= MaxWs
        /\ ws_seen' = ws_seen \cup {w}
        /\ websocket_connections' = Append(websocket_connections, w)
        /\ UNCHANGED <<pub_pc, pub_i, pub_rec, disconnected, ws_broken,
                       received, published, pub_obs>>
        /\ UNCHANGED <<captureVars, watchVars, appVars, fetchVars,
                   dirVars>>

\* The peer of a socket goes away. The endpoint only sleeps (app.py:120-121),
\* so it never learns of it: the socket stays in the list.
WsBreak(w) ==
    /\ w \in Range(websocket_connections)
    /\ w \notin ws_broken
    /\ ws_broken' = ws_broken \cup {w}
    /\ UNCHANGED <<websocket_connections, pub_pc, pub_i, pub_rec,
                   disconnected, ws_seen, received, published, pub_obs>>
    /\ UNCHANGED <<captureVars, watchVars, appVars, fetchVars,
                   dirVars>>

\* app.py:131-139  broadcast_new_transcript up to its first await
BroadcastCall(rec) ==
    /\ pub_pc = "idle"
    /\ Len(published) < MaxPub
    /\ published' = Append(published, rec)
    /\ pub_rec' = rec
    /\ disconnected' = << >>
    /\ IF websocket_connections = << >>
       THEN /\ pub_pc' = "idle"
            /\ pub_i' = 0
            /\ pub_obs' = [start |-> {}, failed |-> {}, got |-> {},
                           done |-> TRUE, aborted |-> FALSE]
       ELSE /\ pub_pc' = "send"
            /\ pub_i' = 1
            /\ pub_obs' = [start |-> Range(websocket_connections),
                           failed |-> {}, got |-> {}, done |-> FALSE,
                           aborted |-> FALSE]
    /\ UNCHANGED <<websocket_connections, ws_seen, ws_broken, received>>
    /\ UNCHANGED <<captureVars, watchVars, appVars, fetchVars,
                   dirVars>>

\* A faulty OnSendError: the failing socket is removed inside the loop
OnSendErrorRemoveNow(conns, disc, w) ==
    [conns |-> ListRemove(conns, w), disc |-> disc]

\* app.py:143-145  the except branch of the send loop
OnSendError(conns, disc, w) ==
    [conns |-> conns, disc |-> Append(disc, w)]

\* app.py:137-148  a send_json ended; the for loop goes on to the next
\* element of the list as it is then, or the function finishes
SendDone ==
    /\ pub_pc = "send"
    /\ LET w == websocket_connections[pub_i]
           fail == w \in ws_broken
           st == IF fail
                 THEN OnSendError(websocket_connections, disconnected, w)
                 ELSE [conns |-> websocket_connections, disc |-> disconnected]
           obs == IF fail
                  THEN [pub_obs EXCEPT !.failed = @ \cup {w}]
                  ELSE [pub_obs EXCEPT !.got = @ \cup {w}]
           fin == RemoveEach(st.conns, st.disc)
       IN  /\ received' = IF fail THEN received
                          ELSE [received EXCEPT ![w] = @ \cup {pub_rec}]
           /\ IF pub_i + 1 <= Len(st.conns)
              THEN /\ pub_i' = pub_i + 1
                   /\ pub_pc' = "send"
                   /\ websocket_connections' = st.conns
                   /\ disconnected' = st.disc
                   /\ pub_obs' = obs
              ELSE /\ pub_i' = 0
                   /\ pub_pc' = "idle"
                   /\ websocket_connections' = fin.conns
                   /\ disconnected' = << >>
                   /\ pub_obs' = [obs EXCEPT !.done = fin.ok,
                                             !.aborted = ~fin.ok]
    /\ UNCHANGED <<pub_rec, ws_seen, ws_broken, published>>
    /\ UNCHANGED <<captureVars, watchVars, appVars, fetchVars,
                   dirVars>>

(***************************************************************************)
(* Inputs                                                                  *)
(***************************************************************************)
Hello == <<"h", "e", "l", "l", "o", " ", "w", "o", "r", "l", "d">>

\* the words a, b, c, ... (n of them) with `sep` between them
RECURSIVE WordsText(_, _)
WordsText(n, sep) ==
    IF n = 0 THEN << >>
    ELSE IF n = 1 THEN <<Letters[1]>>
    ELSE WordsText(n - 1, sep) \o sep \o <<Letters[n]>>

Separators == {<<" ">>, <<" ", " ">>, <<"\n">>}

\* what the speech-to-text engine can return (stripped): "" and transcripts
\* of 1..MaxWords words
Transcripts ==
    {<< >>, Hello} \cup {WordsText(n, sep) : n \in 1..MaxWords, sep \in Separators}

\* what the completion service can return (stripped)
Summaries == {Hello}

\* the transcripts the watcher runs see
FewTranscripts == {<< >>, Hello}

\* a record as the pipeline builds it, for direct calls of the broadcaster
SampleRecord ==
    MakeRecord([file |-> 1, ts |-> ExtractTimestamp(SegName(1), 0),
                transcript |-> Hello], Hello)

(***************************************************************************)
(* Specifications                                                          *)
(***************************************************************************)
\* The capture session: URL cache, supervision loop, stop, clock, subprocess
NextCapture ==
    \/ Tick
    \/ FfmpegOpenSegment
    \/ FfmpegExit
    \/ ConnectionLost
    \/ StartStream
    \/ \E url \in URLs \cup {"None"} : FetchDone(url)
    \/ SpawnOk
    \/ SpawnRaise
    \/ WaitDone
    \/ SleepDone
    \/ StopStream
    \/ StopWaitBegin
    \/ StopKill
    \/ StopDone

\* The watcher beside a capture session (the clock stands still)
NextWatch ==
    \/ FfmpegOpenSegment
    \/ FfmpegExit
    \/ ConnectionLost
    \/ StartStream
    \/ \E url \in URLs \cup {"None"} : FetchDone(url)
    \/ SpawnOk
    \/ SpawnRaise
    \/ WaitDone
    \/ SleepDone
    \/ NewTranscriptionService
    \/ StartMonitoring
    \/ MonSleepDone
    \/ StopMonitoring
    \/ \E out \in Outcomes(FewTranscripts) : SttDone(out)
    \/ \E out \in Outcomes({Hello}) : SumDone(out)

\* The pipeline called directly on the segments of an earlier run
NextPipeline ==
    \/ \E f \in 1..MaxSeg : ProcessDirect(f)
    \/ \E out \in Outcomes(Transcripts) : SttDone(out)
    \/ \E out \in Outcomes(Summaries) : SumDone(out)

\* The pipeline called directly, beside the broadcaster and sockets that stay
\* connected
NextEndToEnd ==
    \/ \E f \in 1..MaxSeg : ProcessDirect(f)
    \/ \E out \in Outcomes(FewTranscripts) : SttDone(out)
    \/ \E out \in Outcomes({Hello}) : SumDone(out)
    \/ WsConnect
    \/ BroadcastCall(SampleRecord)
    \/ SendDone

\* The broadcaster and its sockets
NextBroadcast ==
    \/ WsConnect
    \/ \E w \in 1..MaxWs : WsBreak(w)
    \/ BroadcastCall(SampleRecord)
    \/ SendDone

\* /api/start and /api/stop beside a capture session (the clock stands
\* still)
NextApp ==
    \/ AppStart
    \/ ApiStop
    \/ FfmpegExit
    \/ ConnectionLost
    \/ StartStream
    \/ \E url \in URLs \cup {"None"} : FetchDone(url)
    \/ SpawnOk
    \/ SpawnRaise
    \/ WaitDone
    \/ SleepDone
    \/ StopStream
    \/ StopWaitBegin
    \/ StopKill
    \/ StopDone

\* The watcher beside one capture subprocess that is launched, writes its
\* segments and exits
NextPoll ==
    \/ StartStream
    \/ FetchDone("u1")
    \/ SpawnOk
    \/ FfmpegOpenSegment
    \/ FfmpegExit
    \/ ConnectionLost
    \/ StartMonitoring
    \/ MonSleepDone
    \/ StopMonitoring
    \/ \E out \in Outcomes(FewTranscripts) : SttDone(out)
    \/ \E out \in Outcomes({Hello}) : SumDone(out)

\* get_fresh_url called directly, beside a supervision loop whose launches
\* fail, with the clock running
NextFetcher ==
    \/ Tick
    \/ \E force_refresh \in BOOLEAN : DirectGet(force_refresh)
    \/ \E url \in URLs \cup {"None"} : DirectFetchDone(url)
    \/ StartStream
    \/ \E url \in URLs \cup {"None"} : FetchDone(url)
    \/ SpawnRaise
    \/ SleepDone

\* The pipeline called directly on files of any name, with the clock running
NextNames ==
    \/ Tick
    \/ \E f \in 1..MaxSeg : ProcessDirect(f)
    \/ \E n \in 1..Len(OtherNames) : OtherFileAppears(n)
    \/ \E n \in 1..Len(OtherNames) : ProcessOther(n)
    \/ \E out \in Outcomes(FewTranscripts) : SttDone(out)
    \/ \E out \in Outcomes({Hello}) : SumDone(out)

\* The watcher over the segments of an earlier run, with retrievals
NextRetrieve ==
    \/ StartMonitoring
    \/ MonSleepDone
    \/ StopMonitoring
    \/ \E out \in Outcomes(FewTranscripts) : SttDone(out)
    \/ \E out \in Outcomes({Hello}) : SumDone(out)
    \/ \E limit \in 0..MaxLimit : GetLatest(limit)

Next ==
    \/ NextCapture
    \/ NextWatch
    \/ NextPipeline
    \/ NextEndToEnd
    \/ NextBroadcast
    \/ NextApp
    \/ NextPoll
    \/ NextNames
    \/ NextFetcher
    \/ NextRetrieve

Spec == Init /\ [][Next]_vars
SpecCapture == Init /\ [][NextCapture]_vars
SpecWatch == Init /\ [][NextWatch]_vars
SpecPipeline == Init /\ [][NextPipeline]_vars
SpecEndToEnd == Init /\ [][NextEndToEnd]_vars
SpecBroadcast == Init /\ [][NextBroadcast]_vars
SpecApp == Init /\ [][NextApp]_vars
SpecPoll == Init /\ [][NextPoll]_vars
SpecNames == Init /\ [][NextNames]_vars
SpecFetcher == Init /\ [][NextFetcher]_vars
SpecRetrieve == Init /\ [][NextRetrieve]_vars

(***************************************************************************)
(* Claims                                                                  *)
(***************************************************************************)

\* C1: a segment is dispatched to _process_audio_file at most once over the
\* life of the process, whatever polls, dropped transcriptions and stop/start
\* cycles of monitoring take place.
C1_DispatchedAtMostOnce == \A f \in 1..MaxSeg : dispatched[f] <= 1

\* C2: once stop_stream() has returned for a started session, no capture
\* subprocess of the session is alive (so none was left running and none was
\* launched afterwards).
C2_NoSubprocessAfterStop == stop_obs.returned => proc_state # "running"

\* C3: when retry_count has reached max_retries and the supervision loop has
\* ended, the session is no longer reported as running.
C3_ExhaustedIsStopped ==
    (sup_pc = "done" /\ retry_count = max_retries) => ~is_running

\* C4: retry_count never exceeds max_retries, every iteration of the
\* supervision loop after the first follows a counted failure, and no more
\* than max_retries retries are made.
C4_RetriesBounded ==
    /\ retry_count <= max_retries
    /\ attempts <= retry_count + 1
    /\ attempts - 1 <= max_retries

\* C4 witness: the loop has ended with the retry budget used up
C4_Witness ==
    sup_pc = "done" /\ retry_count = max_retries /\ attempts = max_retries

\* C5: stop_stream() called on a session that is not running performs no
\* subprocess operation and does not raise.
C5_IdleStopIsNoOp == ~stop_obs.idle_op /\ ~stop_obs.idle_raise

\* C6: a get_fresh_url(False) call made inside the cache window (a URL is
\* cached and now < url_expiry) starts no fetch, returns the cached URL and
\* leaves the cache as it is; a call made outside the window starts exactly
\* one fetch. Every iteration of the supervision loop makes one such call.
C6_CacheWindow ==
    [][attempts' = attempts + 1 =>
         IF current_url # "None" /\ url_expiry # << >> /\ now < url_expiry[1]
         THEN /\ fetch_count' = fetch_count
              /\ stream_url' = current_url
              /\ UNCHANGED <<current_url, url_expiry>>
         ELSE fetch_count' = fetch_count + 1]_vars

\* C6 witness: the first call fetched, the second was served from the cache,
\* and the third, made after the window had elapsed, is fetching again
C6_Witness ==
    /\ attempts = 3
    /\ fetch_count = 2
    /\ last_call.fetched
    /\ last_call.pending
    /\ current_url # "None"
    /\ url_expiry # << >>
    /\ now >= url_expiry[1]

\* C7: every record the pipeline has assembled has been handed to
\* broadcast_new_transcript (the end-to-end example: segment
\* audio_20250101_120000.wav, transcript and summary "hello world").
C7_RecordsPublished ==
    \A i \in 1..Len(latest_transcripts) :
        latest_transcripts[i] \in Range(published)

\* The record of the end-to-end example, written out
ExampleRecord ==
    [timestamp |-> <<"2", "0", "2", "5", "-", "0", "1", "-", "0", "1", "T",
                     "1", "2", ":", "0", "0", ":", "0", "0">>,
     video_start |-> <<"2", "0", "2", "5", "-", "0", "1", "-", "0", "1", "T",
                       "1", "2", ":", "0", "0", ":", "0", "0">>,
     video_end |-> <<"2", "0", "2", "5", "-", "0", "1", "-", "0", "1", "T",
                     "1", "2", ":", "0", "0", ":", "0", "0">>,
     filename |-> <<"a", "u", "d", "i", "o", "_", "2", "0", "2", "5", "0",
                    "1", "0", "1", "_", "1", "2", "0", "0", "0", "0", ".",
                    "w", "a", "v">>,
     transcript |-> Hello,
     summary |-> Hello]

\* The pipeline does assemble the record of the example: whenever segment 1
\* has gone through with transcript and summary "hello world", the record
\* appended is ExampleRecord
ExampleRecordAssembled ==
    \A i \in 1..Len(latest_transcripts) :
        LET r == latest_transcripts[i]
        IN  (r.filename = ExampleRecord.filename /\ r.transcript = Hello
               /\ r.summary = Hello) => r = ExampleRecord

\* C8: when a broadcast call has finished, it has not aborted, every socket
\* that was in the list at the call and did not fail has received the record
\* and is still in the list, and the sockets that failed are not in the list.
C8_BroadcastPrunes ==
    pub_obs.done =>
        /\ ~pub_obs.aborted
        /\ \A w \in pub_obs.start \ pub_obs.failed :
               /\ w \in pub_obs.got
               /\ pub_rec \in received[w]
               /\ w \in Range(websocket_connections)
        /\ pub_obs.failed \cap Range(websocket_connections) = {}

\* C8 witness: three subscribers, one failed and is gone, two received
C8_Witness ==
    /\ pub_obs.done
    /\ Cardinality(pub_obs.start) = 3
    /\ Cardinality(pub_obs.failed) = 1
    /\ Cardinality(pub_obs.got) = 2
    /\ Len(websocket_connections) = 2

\* The fallback summary as the claim words it: for a transcript t of more
\* than 15 words, s is the truncation marker after a body that splits into
\* the first 15 words of t and whose only whitespace is one space between
\* two words; for any other transcript, s is t itself.
IsFallbackOf(s, t) ==
    LET w == Split(t)
    IN  IF Len(w) > 15
        THEN /\ Len(s) >= 3
             /\ SubSeq(s, Len(s) - 2, Len(s)) = <<".", ".", ".">>
             /\ LET body == SubSeq(s, 1, Len(s) - 3)
                IN  /\ Split(body) = SubSeq(w, 1, 15)
                    /\ \A i \in 1..Len(body) :
                           IsSpace(body[i]) =>
                               /\ body[i] = " "
                               /\ 1 < i
                               /\ i < Len(body)
                               /\ ~IsSpace(body[i + 1])
        ELSE s = t

\* C9: when the summarization call fails, a record is still appended and its
\* summary is the fallback of its transcript.
C9_FallbackOnFailure ==
    last_out.raised =>
        /\ latest_transcripts # << >>
        /\ LET r == latest_transcripts[Len(latest_transcripts)]
           IN  IsFallbackOf(r.summary, r.transcript)

\* C9 witness: a failed summarization of a transcript of more than 15 words
\* that are not separated by single spaces
C9_Witness ==
    /\ last_out.raised
    /\ latest_transcripts # << >>
    /\ LET r == latest_transcripts[Len(latest_transcripts)]
       IN  /\ Len(Split(r.transcript)) > 15
           /\ r.transcript # Join(Split(r.transcript))

\* C10: the segment in the pipeline is never the one the capture subprocess
\* is still writing.
C10_ActiveNotDispatched ==
    ~(proc_pc # "idle" /\ active /\ job.file = nseg)

\* C12: while a transcription or summarization started by the polling loop
\* is in flight, the polling loop is not suspended on it (it is free to take
\* its next poll).
C12_PollingNotHeldUp == ~(mon_pc = "check" /\ proc_pc # "idle")

\* C13: whenever a segment dispatched by the watcher is in the pipeline, it
\* is already in processed_files.
C13_MarkedBeforeDispatch ==
    (proc_pc # "idle" /\ caller = "loop") => job.file \in processed_files

\* some record of latest_transcripts is that of segment f
HasRecord(f) ==
    \E i \in 1..Len(latest_transcripts) :
        latest_transcripts[i].filename = SegName(f)

\* the dispatches of segment f by the polling loop of this service
TimesDispatched(f) ==
    Cardinality({k \in 1..Len(watch_obs.order) : watch_obs.order[k] = f})

\* C14: a segment whose speech-to-text call raised or returned nothing has no
\* record, is in processed_files, and has been dispatched by this watcher
\* exactly once.
C14_DroppedStaysProcessed ==
    \A f \in watch_obs.dropped :
        /\ ~HasRecord(f)
        /\ f \in processed_files
        /\ TimesDispatched(f) = 1

\* C14 witness: one segment dropped after a raise, another after an empty
\* result, and the poll is over
C14_Witness ==
    /\ mon_pc = "sleep"
    /\ watch_obs.dropped \cap watch_obs.failed # {}
    /\ watch_obs.dropped \ watch_obs.failed # {}

\* C15: after a stop_stream() call that found the supervision loop in a
\* backoff sleep, the loop starts no further iteration and no page load,
\* retry_count stays, no subprocess runs, and the loop only ends.
C15_StopDuringBackoff ==
    stop_obs.sleep.set =>
        /\ attempts = stop_obs.sleep.attempts
        /\ fetch_count = stop_obs.sleep.fetch
        /\ retry_count = stop_obs.sleep.retry
        /\ proc_state # "running"
        /\ sup_pc \in {"sleep", "done"}

\* C15 witness: stopped in the sleep before the retry budget was used up,
\* and the loop has ended
C15_Witness ==
    /\ stop_obs.sleep.set
    /\ sup_pc = "done"
    /\ retry_count < max_retries
    /\ retry_count > 0

\* C16: whatever failed, the polling loop ends only after stop_monitoring(),
\* a poll that is over has put every segment it listed through the pipeline,
\* and during a poll every listed segment before the one in the pipeline has
\* been put through.
C16_FailureContained ==
    /\ mon_pc = "done" => ~is_monitoring
    /\ mon_pc = "sleep" => watch_obs.listed \subseteq processed_files
    /\ mon_pc = "check" =>
           \A k \in 1..(idx - 1) : audio_files[k] \in processed_files

\* C16 witness: the speech-to-text call of one segment raised and a later
\* segment of the listing has its record
C16_Witness ==
    /\ mon_pc = "sleep"
    /\ is_monitoring
    /\ \E f \in watch_obs.failed \cap watch_obs.dropped :
           \E g \in watch_obs.listed : g > f /\ HasRecord(g)

\* C17: a /api/start request handled while no session is running does not
\* fail: it is answered "started", with both loops created.
C17_IdleStartAccepted == app_last # "error"

\* C18: the segment that was in the pipeline when stop_monitoring() was
\* called is still in the pipeline, or it has been put through and has its
\* record (or was dropped for want of a transcript).
C18_InFlightCompletes ==
    LET f == watch_obs.at_stop
    IN  f # 0 =>
            \/ proc_pc # "idle" /\ job.file = f
            \/ f \in processed_files /\ (HasRecord(f) \/ f \in watch_obs.dropped)

\* C18 witness: the record of the segment that was in flight at the stop
C18_Witness ==
    /\ ~is_monitoring
    /\ watch_obs.at_stop # 0
    /\ HasRecord(watch_obs.at_stop)

\* the time embedded in the name of segment f, as a tuple
SegTime(f) ==
    LET ts == ExtractTimestamp(SegName(f), 0)
    IN  <<ts.Y, ts.m, ts.d, ts.H, ts.M, ts.S>>

\* C19: the segments the polling loop dispatched are in ascending order of
\* the time embedded in their names, and so are the timestamps of the
\* records.
C19_AscendingOrder ==
    /\ \A i, j \in 1..Len(watch_obs.order) :
           i < j => /\ SegTime(watch_obs.order[i]) # SegTime(watch_obs.order[j])
                    /\ TupleLeq(SegTime(watch_obs.order[i]),
                                SegTime(watch_obs.order[j]))
    /\ \A i, j \in 1..Len(latest_transcripts) :
           i < j => StrLess(latest_transcripts[i].timestamp,
                            latest_transcripts[j].timestamp)

\* C19 witness: one poll listed two segments and both have their records
C19_Witness ==
    /\ Cardinality(watch_obs.listed) >= 2
    /\ Len(watch_obs.order) >= 2
    /\ Len(latest_transcripts) >= 2

\* C20: get_latest_transcripts(limit) with limit >= 0 returns at most limit
\* records: the last min(limit, length) records of the list, in list order.
C20_BoundedRetrieval ==
    last_get.called =>
        LET n == Len(last_get.seq)
            k == IF last_get.limit < n THEN last_get.limit ELSE n
        IN  /\ Len(last_get.result) <= last_get.limit
            /\ last_get.result = SubSeq(last_get.seq, n - k + 1, n)

\* C23: retry_count never goes down and goes up by one at a time; a page
\* load that returned a URL and a launch that succeeded leave it as it is;
\* once it has reached max_retries the supervision loop begins no further
\* iteration.
C23_RetryBudgetCumulative ==
    [][/\ retry_count' >= retry_count
       /\ retry_count' <= retry_count + 1
       /\ (\/ sup_pc = "fetch" /\ sup_pc' = "spawn"
           \/ sup_pc = "spawn" /\ sup_pc' = "wait") =>
              retry_count' = retry_count
       /\ retry_count = max_retries => attempts' = attempts]_vars

\* C23 witness: a capture subprocess is running after two failures, with the
\* two failures still counted
C23_Witness ==
    /\ sup_pc = "wait"
    /\ proc_state = "running"
    /\ is_running
    /\ retry_count = max_retries - 1

\* C24: after stop_monitoring(), a segment in the pipeline of the polling
\* loop is the one that was in flight when stop_monitoring() was called.
C24_NoDispatchAfterStop ==
    (mon_pc # "new" /\ ~is_monitoring /\ proc_pc # "idle" /\ caller = "loop")
        => job.file = watch_obs.at_stop

\* the name is audio_<8 digits>_<6 digits>.wav
Conforms(name) ==
    /\ Len(name) = Len(AudioPrefix) + 15 + Len(WavSuffix)
    /\ StartsWith(name, AudioPrefix)
    /\ SubSeq(name, Len(name) - Len(WavSuffix) + 1, Len(name)) = WavSuffix
    /\ AllDigits(SubSeq(name, 7, 14))
    /\ name[15] = "_"
    /\ AllDigits(SubSeq(name, 16, 21))

\* C21: a record whose filename is not of the form
\* audio_<YYYYMMDD>_<HHMMSS>.wav carries the fallback current time as its
\* timestamp, video_start and video_end.
C21_FallbackTimestamp ==
    \A i \in 1..Len(latest_transcripts) :
        LET r == latest_transcripts[i]
        IN  ~Conforms(r.filename) =>
                /\ Head(r.timestamp) = "now"
                /\ r.video_start = r.timestamp
                /\ r.video_end = r.timestamp

\* a page load ends in this step and found no URL: that of a direct call of
\* get_fresh_url, or that of the supervision loop's call
FailedLoadEnds ==
    \/ /\ get_pc = "fetch"
       /\ get_pc' = "idle"
       /\ get_obs'.loaded = "None"
    \/ /\ last_call.pending
       /\ ~last_call'.pending
       /\ last_call'.returned = "None"

\* C22: a page load that found no URL, forced or not, leaves current_url and
\* url_expiry as they were, the call returns None, and a cached URL that was
\* valid is still valid (a get_fresh_url(False) would return it).
C22_FailedFetchKeepsCache ==
    [][FailedLoadEnds =>
           /\ UNCHANGED <<current_url, url_expiry>>
           /\ get_pc = "fetch" => get_obs'.returned = "None"
           /\ get_pc # "fetch" => stream_url' = "None"
           /\ (current_url # "None" /\ url_expiry # << >>
                   /\ now < url_expiry[1]) =>
                  /\ current_url' = current_url
                  /\ url_expiry' # << >>
                  /\ now' < url_expiry'[1]]_vars

\* C22 witness: a forced refresh found no URL while the cached URL was valid,
\* and the cached URL is still there and valid
C22_Witness ==
    /\ get_obs.done
    /\ get_obs.force
    /\ get_obs.loaded = "None"
    /\ get_obs.returned = "None"
    /\ current_url # "None"
    /\ url_expiry # << >>
    /\ now < url_expiry[1]
====
